---------------------------- MODULE Spec2Model ----------------------------
(***************************************************************************)
(* A model of the planar geometry kernel of spacemath (src/src/two).       *)
(*                                                                         *)
(* Numbers.  The code computes in f64.  The model computes in exact        *)
(* rationals <<n, d>> (d > 0, lowest terms) extended with the IEEE-754     *)
(* special values the code can produce: <<1,0>> = +inf, <<-1,0>> = -inf,   *)
(* <<0,0>> = NaN.  Division by zero, inf - inf, 0 * inf, the square root   *)
(* of a negative number and every comparison with NaN behave as in         *)
(* IEEE-754.  Rounding is not modelled: the inputs are drawn from sets on  *)
(* which every square root the code takes is the root of a rational        *)
(* square (a root that is not is the value Irr, and the initial states     *)
(* leave out the inputs that produce one).  Zero is unsigned.              *)
(*                                                                         *)
(* Angles.  An angle is a position on the scale 0 .. 2*NDirs: the even     *)
(* position 2*i is the angle of the i-th direction of the table Dirs (a    *)
(* unit vector with rational coordinates, the table sorted by angle),      *)
(* 2*NDirs is 2*pi, and the odd position 2*i+1 is any angle strictly       *)
(* between the directions i and i+1.  atan2 is the exact position of a     *)
(* vector on this scale, so that comparing the angle of a point with an    *)
(* angle of the table is exact.                                            *)
(***************************************************************************)
EXTENDS Integers, Sequences, FiniteSets, TLC

VARIABLES self, other, cnt, ints, rints, inb, given, edges, points, status,
          pt, ops, hits, held, out

\* the argument, the history and the results of the calls on a Boundary, a
\* Segment's dist and clamp
calls == <<pt, ops, hits, held, out>>

vars == <<self, other, cnt, ints, rints, inb, given, edges, points, status, calls>>

(***************************************************************************)
(* f64 arithmetic                                                          *)
(***************************************************************************)
NaN == <<0, 0>>
PInf == <<1, 0>>
NInf == <<-1, 0>>
Irr == <<0, -1>>

AbsI(n) == IF n < 0 THEN -n ELSE n

SgnI(n) == IF n < 0 THEN -1 ELSE IF n > 0 THEN 1 ELSE 0

RECURSIVE GCD(_, _)
GCD(m, n) == IF n = 0 THEN m ELSE GCD(n, m % n)

\* the rational n/d, d # 0, in lowest terms with a positive denominator
Q(n, d) ==
    LET g == GCD(AbsI(n), AbsI(d))
    IN  <<SgnI(d) * (n \div g), SgnI(d) * (d \div g)>>

I(n) == <<n, 1>>

IsFin(x) == x[2] > 0

IsInf(x) == x[2] = 0 /\ x[1] # 0

Sgn(x) == SgnI(x[1])

Neg(x) == <<-x[1], x[2]>>

Add(x, y) ==
    IF x = Irr \/ y = Irr THEN Irr
    ELSE IF x = NaN \/ y = NaN THEN NaN
    ELSE IF IsFin(x) /\ IsFin(y) THEN Q(x[1] * y[2] + y[1] * x[2], x[2] * y[2])
    ELSE IF IsInf(x) /\ IsInf(y) THEN (IF x = y THEN x ELSE NaN)
    ELSE IF IsInf(x) THEN x ELSE y

Sub(x, y) == Add(x, Neg(y))

Mul(x, y) ==
    IF x = Irr \/ y = Irr THEN Irr
    ELSE IF x = NaN \/ y = NaN THEN NaN
    ELSE IF IsFin(x) /\ IsFin(y) THEN Q(x[1] * y[1], x[2] * y[2])
    ELSE IF Sgn(x) * Sgn(y) = 0 THEN NaN
    ELSE <<Sgn(x) * Sgn(y), 0>>

Div(x, y) ==
    IF x = Irr \/ y = Irr THEN Irr
    ELSE IF x = NaN \/ y = NaN THEN NaN
    ELSE IF IsFin(x) /\ IsFin(y)
         THEN IF y[1] # 0 THEN Q(x[1] * y[2], x[2] * y[1])
              ELSE IF x[1] = 0 THEN NaN ELSE <<Sgn(x), 0>>
    ELSE IF IsInf(x) /\ IsInf(y) THEN NaN
    ELSE IF IsInf(x) THEN <<Sgn(x) * (IF Sgn(y) < 0 THEN -1 ELSE 1), 0>>
    ELSE I(0)

\* ==, <, <=, > on f64: false as soon as one side is NaN
Eq(x, y) == x[2] >= 0 /\ y[2] >= 0 /\ x # NaN /\ y # NaN /\ x = y

Lt(x, y) ==
    /\ x[2] >= 0 /\ y[2] >= 0 /\ x # NaN /\ y # NaN
    /\ x # y
    /\ IF IsFin(x) /\ IsFin(y) THEN x[1] * y[2] < y[1] * x[2]
       ELSE x = NInf \/ y = PInf

Le(x, y) == Lt(x, y) \/ Eq(x, y)

Gt(x, y) == Lt(y, x)

Ge(x, y) == Le(y, x)

\* f64::max and f64::min: a NaN operand is ignored
MaxF(x, y) == IF x = NaN THEN y ELSE IF y = NaN THEN x ELSE IF Lt(x, y) THEN y ELSE x

MinF(x, y) == IF x = NaN THEN y ELSE IF y = NaN THEN x ELSE IF Lt(y, x) THEN y ELSE x

AbsF(x) == IF x[2] >= 0 /\ x[1] < 0 THEN Neg(x) ELSE x

IsSquare(n) == \E k \in 0..n : k * k = n

ISqrt(n) == CHOOSE k \in 0..n : k * k = n

\* f64::sqrt; Irr when the root is not rational
Sqrt(x) ==
    IF x = Irr THEN Irr
    ELSE IF x = NaN \/ x = NInf THEN NaN
    ELSE IF x = PInf THEN PInf
    ELSE IF x[1] < 0 THEN NaN
    ELSE IF IsSquare(x[1]) /\ IsSquare(x[2]) THEN <<ISqrt(x[1]), ISqrt(x[2])>>
    ELSE Irr

Powi2(x) == Mul(x, x)

(***************************************************************************)
(* Point (point.rs)                                                        *)
(***************************************************************************)
Pt(x, y) == [x |-> x, y |-> y]

PtI(x, y) == Pt(I(x), I(y))

PAdd(p, q) == Pt(Add(p.x, q.x), Add(p.y, q.y))

PSub(p, q) == Pt(Sub(p.x, q.x), Sub(p.y, q.y))

PMul(p, s) == Pt(Mul(p.x, s), Mul(p.y, s))

PDiv(p, s) == Pt(Div(p.x, s), Div(p.y, s))

PMid(p, q) == Pt(Div(Add(p.x, q.x), I(2)), Div(Add(p.y, q.y), I(2)))

PNorm(p) == Sqrt(Add(Powi2(p.x), Powi2(p.y)))

PDot(p, q) == Add(Mul(p.x, q.x), Mul(p.y, q.y))

PToUnit(p) == PDiv(p, PNorm(p))

PPerp(p) == Pt(Mul(I(-1), p.y), p.x)

PDist(p, q) == PNorm(PSub(p, q))

\* PartialEq on Point: f64 == on both coordinates
PEq(p, q) == Eq(p.x, q.x) /\ Eq(p.y, q.y)

PHasIrr(p) == p.x = Irr \/ p.y = Irr

(***************************************************************************)
(* Count and Intersections (intersect.rs)                                  *)
(***************************************************************************)
CZero == [tag |-> "Zero", n |-> 0]
COne == [tag |-> "One", n |-> 1]
CMany(n) == [tag |-> "Many", n |-> n]
CInf == [tag |-> "Inf", n |-> 0]
CUnset == [tag |-> "Unset", n |-> 0]

U8 == 256

\* impl From<usize> for Count: "x as u8" truncates
CountFrom(val) ==
    IF val = 0 THEN CZero ELSE IF val = 1 THEN COne ELSE CMany(val % U8)

IZero == [tag |-> "Zero", pts |-> <<>>]
IOne(a) == [tag |-> "One", pts |-> <<a>>]
ITwo(a, b) == [tag |-> "Two", pts |-> <<a, b>>]
IMany(v) == [tag |-> "Many", pts |-> v]
IUnset == [tag |-> "Unset", pts |-> <<>>]

ICount(i) == CountFrom(Len(i.pts))

FromVec(v) ==
    IF Len(v) = 0 THEN IZero
    ELSE IF Len(v) = 1 THEN IOne(v[1])
    ELSE IF Len(v) = 2 THEN ITwo(v[1], v[2])
    ELSE IMany(v)

\* Option<Point> as a sequence of at most one point
GetOne(i) == IF i.tag = "Zero" THEN <<>> ELSE <<i.pts[1]>>

(***************************************************************************)
(* Line (line.rs) and Line-Line intersection (intersect.rs)                *)
(***************************************************************************)
Line(a, b, c) == [kind |-> "Line", a |-> a, b |-> b, c |-> c]

LineI(a, b, c) == Line(I(a), I(b), I(c))

PerpOrigin(l) == Line(Mul(I(-1), l.b), l.a, I(0))

LineIntersects(s, o) ==
    LET disc == Sub(Mul(s.a, o.b), Mul(s.b, o.a))
        scale == Div(s.a, o.a)
    IN  IF Eq(disc, I(0))
        THEN IF Eq(Div(s.b, o.b), scale) /\ Eq(Div(s.c, o.c), scale)
             THEN CInf ELSE CZero
        ELSE COne

\* LineIntersectsAt with the numerator of y negated
LineIntersectsAtWrongY(s, o) ==
    IF LineIntersects(s, o) = COne
    THEN LET den == Sub(Mul(s.b, o.a), Mul(s.a, o.b))
             x == Div(Sub(Mul(s.b, o.c), Mul(s.c, o.b)), den)
             y == Div(Sub(Mul(s.a, o.c), Mul(s.c, o.a)), den)
         IN  IOne(Pt(x, y))
    ELSE IZero

LineIntersectsAt(s, o) ==
    IF LineIntersects(s, o) = COne
    THEN LET den == Sub(Mul(s.b, o.a), Mul(s.a, o.b))
             x == Div(Sub(Mul(s.b, o.c), Mul(s.c, o.b)), den)
             y == Div(Sub(Mul(s.c, o.a), Mul(s.a, o.c)), den)
         IN  IOne(Pt(x, y))
    ELSE IZero

(***************************************************************************)
(* Angles                                                                  *)
(***************************************************************************)
\* the directions whose angles Ray and Arc are built from, sorted by angle
Dirs ==
    << Pt(<<1, 1>>, <<0, 1>>),   Pt(<<4, 5>>, <<3, 5>>),   Pt(<<3, 5>>, <<4, 5>>),
       Pt(<<0, 1>>, <<1, 1>>),   Pt(<<-3, 5>>, <<4, 5>>),  Pt(<<-4, 5>>, <<3, 5>>),
       Pt(<<-1, 1>>, <<0, 1>>),  Pt(<<-4, 5>>, <<-3, 5>>), Pt(<<-3, 5>>, <<-4, 5>>),
       Pt(<<0, 1>>, <<-1, 1>>),  Pt(<<3, 5>>, <<-4, 5>>),  Pt(<<4, 5>>, <<-3, 5>>) >>

NDirs == Len(Dirs)

\* std::f64::consts::TAU
TAU == 2 * NDirs

AngNaN == -1

\* the angle of the i-th direction, i in 0 .. NDirs - 1
AngOf(i) == 2 * i

\* f64 comparisons of angles: false on NaN
ALt(x, y) == x >= 0 /\ y >= 0 /\ x < y

ALe(x, y) == x >= 0 /\ y >= 0 /\ x <= y

\* Point::unit(ang) = (cos ang, sin ang), for an angle of the table
Unit(ang) ==
    IF ang < 0 \/ ang % 2 = 1 THEN Pt(NaN, NaN)
    ELSE Dirs[((ang \div 2) % NDirs) + 1]

\* 0 for a direction in [0, pi), 1 for one in [pi, 2 pi)
Half(v) == IF Sgn(v.y) > 0 \/ (Sgn(v.y) = 0 /\ Sgn(v.x) >= 0) THEN 0 ELSE 1

Cross(u, v) == Sub(Mul(u.x, v.y), Mul(u.y, v.x))

DirLe(u, v) ==
    Half(u) < Half(v) \/ (Half(u) = Half(v) /\ Sgn(Cross(u, v)) >= 0)

SameDir(u, v) == Half(u) = Half(v) /\ Sgn(Cross(u, v)) = 0

\* atan2 reads an infinite coordinate as a direction
AsDir(p) ==
    IF IsInf(p.x) \/ IsInf(p.y)
    THEN Pt(IF IsInf(p.x) THEN I(Sgn(p.x)) ELSE I(0),
            IF IsInf(p.y) THEN I(Sgn(p.y)) ELSE I(0))
    ELSE p

\* Point::ang: atan2(y, x), moved into [0, 2 pi)
PAng(p) ==
    IF p.x = NaN \/ p.y = NaN \/ PHasIrr(p) THEN AngNaN
    ELSE LET Last(below) == CHOOSE i \in below : \A j \in below : j <= i
             At(v, m) == IF SameDir(Dirs[m], v) THEN 2 * (m - 1) ELSE 2 * (m - 1) + 1
             Atan2(v) ==
                 IF Sgn(v.x) = 0 /\ Sgn(v.y) = 0 THEN 0
                 ELSE At(v, Last({i \in 1..NDirs : DirLe(Dirs[i], v)}))
         IN  Atan2(AsDir(p))

(***************************************************************************)
(* Segment, Ray, Circle, Arc (line.rs) and Shift (shift.rs)                *)
(***************************************************************************)
Segment(p, q) == [kind |-> "Segment", p |-> p, q |-> q]

SegToLine(s) ==
    LET a == Sub(s.q.y, s.p.y)
        b == Sub(s.p.x, s.q.x)
    IN  Line(a, b, Add(Mul(a, s.p.x), Mul(b, s.p.y)))

\* SegBoundsContain with the bounding box taken open
SegBoundsContainOpen(s, r) ==
    /\ Lt(r.x, MaxF(s.p.x, s.q.x))
    /\ Gt(r.x, MinF(s.p.x, s.q.x))
    /\ Lt(r.y, MaxF(s.p.y, s.q.y))
    /\ Gt(r.y, MinF(s.p.y, s.q.y))

SegBoundsContain(s, r) ==
    /\ Le(r.x, MaxF(s.p.x, s.q.x))
    /\ Ge(r.x, MinF(s.p.x, s.q.x))
    /\ Le(r.y, MaxF(s.p.y, s.q.y))
    /\ Ge(r.y, MinF(s.p.y, s.q.y))

SegReverse(s) == Segment(s.q, s.p)

Ray(init, ang) == [kind |-> "Ray", init |-> init, ang |-> ang]

RayToLine(r) ==
    LET a == Mul(I(-1), Unit(r.ang).y)
        b == Unit(r.ang).x
    IN  Line(a, b, Add(Mul(a, r.init.x), Mul(b, r.init.y)))

RayBoundsContain(ray, r) == Gt(PDot(PSub(r, ray.init), Unit(ray.ang)), I(0))

Circle(center, radius) == [kind |-> "Circle", center |-> center, radius |-> radius]

CircleAtAng(c, ang) == PAdd(PMul(Unit(ang), c.radius), c.center)

Arc(center, radius, p_ang, q_ang, ccw) ==
    [kind |-> "Arc", center |-> center, radius |-> radius,
     p_ang |-> p_ang, q_ang |-> q_ang, ccw |-> ccw]

ArcToCircle(a) == Circle(a.center, a.radius)

ArcP(a) == PAdd(PMul(Unit(a.p_ang), a.radius), a.center)

\* as written in line.rs: q() reads p_ang
ArcQ(a) == PAdd(PMul(Unit(a.p_ang), a.radius), a.center)

\* ArcBoundsContain with equal bounds read as the range p_ang ..= q_ang
ArcBoundsContainClosed(a, r) ==
    LET is_in_ccw_arc(ang) ==
            IF ALe(a.p_ang, a.q_ang)
            THEN ALe(a.p_ang, ang) /\ ALe(ang, a.q_ang)
            ELSE ALe(a.p_ang, ang) \/ ALe(ang, a.q_ang)
        Within(in_ccw) == IF a.ccw THEN in_ccw ELSE ~in_ccw
    IN  Within(is_in_ccw_arc(PAng(PSub(r, a.center))))

ArcBoundsContain(a, r) ==
    LET is_in_ccw_arc(ang) ==
            IF ALt(a.p_ang, a.q_ang)
            THEN ALe(a.p_ang, ang) /\ ALe(ang, a.q_ang)
            ELSE ALe(a.p_ang, ang) \/ ALe(ang, a.q_ang)
        Within(in_ccw) == IF a.ccw THEN in_ccw ELSE ~in_ccw
    IN  Within(is_in_ccw_arc(PAng(PSub(r, a.center))))

ArcReverse(a) == Arc(a.center, a.radius, a.q_ang, a.p_ang, ~a.ccw)

\* Line::offset_x, offset_y and Shift for Line
LineShift(l, r) ==
    LET c1 == Add(l.c, Mul(l.a, r.x))
    IN  Line(l.a, l.b, Add(c1, Mul(l.b, r.y)))

LineShiftSubtract(l, r) == LineShift(l, PMul(r, I(-1)))

(***************************************************************************)
(* Intersections::filter and the Circle intersections (intersect.rs)       *)
(***************************************************************************)
\* a panic (unwrap of None, failed assert) met while computing a result
IPanic == [tag |-> "Panic", pts |-> <<>>]

\* the closure every impl hands to filter: |p| self.bounds_contain(*p)
BoundsContain(s, p) ==
    CASE s.kind = "Segment" -> SegBoundsContain(s, p)
      [] s.kind = "Ray" -> RayBoundsContain(s, p)
      [] s.kind = "Arc" -> ArcBoundsContain(s, p)

\* Intersections::filter, with the predicate given by the shape s it tests
Filter(i, s) ==
    LET Match(fp, fq) ==
            IF fp
            THEN IF fq THEN ITwo(i.pts[1], i.pts[2]) ELSE IOne(i.pts[1])
            ELSE IF fq THEN IOne(i.pts[2]) ELSE IZero
    IN  CASE i.tag = "Zero" -> IZero
          [] i.tag = "One" -> IF BoundsContain(s, i.pts[1]) THEN IOne(i.pts[1]) ELSE IZero
          [] i.tag = "Two" -> Match(BoundsContain(s, i.pts[1]), BoundsContain(s, i.pts[2]))
          [] i.tag = "Many" -> FromVec(SelectSeq(i.pts, LAMBDA p : BoundsContain(s, p)))
          [] OTHER -> i

\* CircleCircleAt with the weights of the tangent point exchanged
CircleCircleAtSwappedWeights(s, o) ==
    LET c1 == s.center
        r1 == s.radius
        c2 == o.center
        r2 == o.radius
        dist == PDist(c1, c2)
        mid == PMid(c1, c2)
        a == Div(Sub(Powi2(r1), Powi2(r2)), Mul(I(2), Powi2(dist)))
        inner == Sub(Div(Mul(I(2), Add(Powi2(r1), Powi2(r2))), Powi2(dist)),
                     Powi2(Mul(a, I(2))))
        b == Div(Sqrt(Sub(inner, I(1))), I(2))
        b_dir == Pt(Sub(c2.y, c1.y), Sub(c1.x, c2.x))
        base == PAdd(mid, PMul(PSub(c2, c1), a))
    IN  IF Gt(dist, Add(r1, r2)) THEN IZero
        ELSE IF Eq(dist, Add(r1, r2))
             THEN IOne(PDiv(PAdd(PMul(c1, r1), PMul(c2, r2)), dist))
        ELSE ITwo(PAdd(base, PMul(b_dir, b)), PSub(base, PMul(b_dir, b)))

CircleCircleAt(s, o) ==
    LET c1 == s.center
        r1 == s.radius
        c2 == o.center
        r2 == o.radius
        dist == PDist(c1, c2)
        mid == PMid(c1, c2)
        a == Div(Sub(Powi2(r1), Powi2(r2)), Mul(I(2), Powi2(dist)))
        inner == Sub(Div(Mul(I(2), Add(Powi2(r1), Powi2(r2))), Powi2(dist)),
                     Powi2(Mul(a, I(2))))
        b == Div(Sqrt(Sub(inner, I(1))), I(2))
        b_dir == Pt(Sub(c2.y, c1.y), Sub(c1.x, c2.x))
        base == PAdd(mid, PMul(PSub(c2, c1), a))
    IN  IF Gt(dist, Add(r1, r2)) THEN IZero
        ELSE IF Eq(dist, Add(r1, r2))
             THEN IOne(PDiv(PAdd(PMul(c1, r2), PMul(c2, r1)), dist))
        ELSE ITwo(PAdd(base, PMul(b_dir, b)), PSub(base, PMul(b_dir, b)))

\* each let of the code is the parameter of the step that uses it
CircleLineAt(s, o) ==
    LET r == s.radius
        Chord(inter, dist, half_chord, unit_radial, unit_tangential) ==
            LET p1 == PAdd(PMul(unit_radial, dist), PMul(unit_tangential, half_chord))
                p2 == PSub(PMul(unit_radial, dist), PMul(unit_tangential, half_chord))
            IN  IF Eq(dist, r) THEN IOne(PAdd(inter, s.center))
                ELSE IF Gt(dist, r) THEN IZero
                ELSE ITwo(PAdd(p1, s.center), PAdd(p2, s.center))
        Radial(inter, dist, unit_radial) ==
            Chord(inter, dist, Sqrt(Sub(Powi2(r), Powi2(dist))), unit_radial,
                  PPerp(unit_radial))
        Around(inter) == Radial(inter, PNorm(inter), PToUnit(inter))
        Unwrap(found) == IF found = <<>> THEN IPanic ELSE Around(found[1])
        Meet(shifted_line) == GetOne(LineIntersectsAt(PerpOrigin(shifted_line), shifted_line))
    IN  Unwrap(Meet(LineShiftSubtract(o, s.center)))

(***************************************************************************)
(* The Intersect trait: which impl each pair of kinds resolves to          *)
(***************************************************************************)
RECURSIVE IntersectsAt(_, _)

\* reflexive_intersect! with the other shape widened to the line or circle
\* that carries it
ReflexiveOnCarrier(s, o) ==
    IntersectsAt(CASE o.kind = "Segment" -> SegToLine(o)
                   [] o.kind = "Ray" -> RayToLine(o)
                   [] o.kind = "Arc" -> ArcToCircle(o)
                   [] OTHER -> o, s)

\* reflexive_intersect!(A, B): A.intersects_at(B) is B.intersects_at(A)
Reflexive(s, o) == IntersectsAt(o, s)

IntersectsAt(s, o) ==
    CASE s.kind = "Line" /\ o.kind = "Line" -> LineIntersectsAt(s, o)
      \* reflexive_intersect!(Line, Segment | Ray | Circle | Arc)
      [] s.kind = "Line" /\ o.kind # "Line" -> Reflexive(s, o)
      [] s.kind = "Segment" ->
            Filter(IntersectsAt(o, SegToLine(s)), s)
      [] s.kind = "Ray" ->
            Filter(IntersectsAt(o, RayToLine(s)), s)
      [] s.kind = "Circle" /\ o.kind = "Circle" -> CircleCircleAt(s, o)
      [] s.kind = "Circle" /\ o.kind = "Line" -> CircleLineAt(s, o)
      \* reflexive_intersect!(Circle, Segment | Ray | Arc)
      [] s.kind = "Circle" /\ o.kind \notin {"Circle", "Line"} -> Reflexive(s, o)
      [] s.kind = "Arc" ->
            Filter(IntersectsAt(o, ArcToCircle(s)), s)

CPanic == [tag |-> "Panic", n |-> 0]

\* Intersect::intersects: the trait's default, overridden for Line-Line only
Intersects(s, o) ==
    IF s.kind = "Line" /\ o.kind = "Line" THEN LineIntersects(s, o)
    ELSE LET Counted(i) == IF i.tag = "Panic" THEN CPanic ELSE ICount(i)
         IN  Counted(IntersectsAt(s, o))

(***************************************************************************)
(* The calls a client makes on a pair of primitives                        *)
(***************************************************************************)
NoBoundary ==
    /\ given = <<>>
    /\ edges = <<>>
    /\ points = <<>>
    /\ status = "none"

\* the result of a call of dist or clamp: none yet, a panic, or a value
OutUnset == [tag |-> "Unset", val |-> <<>>]
OutPanic == [tag |-> "Panic", val |-> <<>>]
Returned(v) == [tag |-> "Returned", val |-> v]

NoCalls ==
    /\ ops = <<>>
    /\ hits = IUnset
    /\ held = "unset"
    /\ out = OutUnset

InitPair(S, O) ==
    /\ self \in S
    /\ other \in O
    /\ cnt = CUnset
    /\ ints = IUnset
    /\ rints = IUnset
    /\ inb = "unset"
    /\ NoBoundary
    /\ pt = PtI(0, 0)
    /\ NoCalls

\* self.intersects(&other)
CallIntersects ==
    /\ cnt = CUnset
    /\ cnt' = Intersects(self, other)
    /\ UNCHANGED <<self, other, ints, rints, inb, given, edges, points, status, calls>>

\* self.intersects_at(&other)
CallIntersectsAt ==
    /\ ints = IUnset
    /\ ints' = IntersectsAt(self, other)
    /\ UNCHANGED <<self, other, cnt, rints, inb, given, edges, points, status, calls>>

\* other.intersects_at(&self)
CallIntersectsAtSwapped ==
    /\ rints = IUnset
    /\ rints' = IntersectsAt(other, self)
    /\ UNCHANGED <<self, other, cnt, ints, inb, given, edges, points, status, calls>>

(***************************************************************************)
(* SpecLine: two Lines                                                     *)
(***************************************************************************)
MaxCoef == 2

Coefs == (-MaxCoef)..MaxCoef

\* a x + b y = c with a and b not both zero
Lines == {LineI(a, b, c) : <<a, b, c>> \in {t \in Coefs \X Coefs \X Coefs : t[1] # 0 \/ t[2] # 0}}

InitLine == InitPair(Lines, Lines)

NextLine == CallIntersects \/ CallIntersectsAt

SpecLine == InitLine /\ [][NextLine]_vars

\* the discriminant a1 b2 - b1 a2 of the two Lines
Disc == Sub(Mul(self.a, other.b), Mul(self.b, other.a))

OnLine(l, p) == Add(Mul(l.a, p.x), Mul(l.b, p.y)) = l.c

\* (a1,b1,c1) and (a2,b2,c2) are proportional
Proportional(s, o) ==
    /\ Mul(s.a, o.b) = Mul(s.b, o.a)
    /\ Mul(s.a, o.c) = Mul(s.c, o.a)
    /\ Mul(s.b, o.c) = Mul(s.c, o.b)

\* C1: intersects(A, B) equals intersects_at(A, B).count(), for two Lines in
\* every configuration (transversal, parallel and disjoint, coincident).
C1_Consistency ==
    (cnt # CUnset /\ ints # IUnset) => cnt = ICount(ints)

\* C3: when disc is not zero, intersects returns One and intersects_at returns
\* exactly one point, which satisfies the equations of both Lines.
C3_Transversal ==
    Disc # I(0) =>
        /\ cnt # CUnset => cnt = COne
        /\ ints # IUnset =>
              /\ ints.tag = "One"
              /\ OnLine(self, ints.pts[1])
              /\ OnLine(other, ints.pts[1])

C3_Witness ==
    /\ self = LineI(1, 2, 2)
    /\ other = LineI(1, -1, -1)
    /\ cnt = COne
    /\ ints = IOne(PtI(0, 1))

\* C4: when disc is zero, intersects returns Inf if and only if the coefficient
\* triples are proportional, and Zero otherwise, zero coefficients included.
C4_Degenerate ==
    (Disc = I(0) /\ cnt # CUnset) =>
        cnt = IF Proportional(self, other) THEN CInf ELSE CZero

(***************************************************************************)
(* SpecCircle: a Circle against a Line or a Circle                         *)
(***************************************************************************)
MaxCenter == 2

MaxRadius == 5

Centers == {PtI(x, y) : x \in (-MaxCenter)..MaxCenter, y \in (-MaxCenter)..MaxCenter}

Circles == {Circle(c, I(r)) : c \in Centers, r \in 1..MaxRadius}

OwnCenters == {PtI(0, 0), PtI(1, 2), PtI(-1, 0)}

OwnCircles == {Circle(c, I(r)) : c \in OwnCenters, r \in 1..MaxRadius}

\* the Line or Circle a primitive is reduced to before its bound is applied
Base(s) ==
    CASE s.kind = "Segment" -> SegToLine(s)
      [] s.kind = "Ray" -> RayToLine(s)
      [] s.kind = "Arc" -> ArcToCircle(s)
      [] OTHER -> s

\* every square root taken for the pair is the root of a rational square
Exact(s, o) ==
    LET Rational(i) == \A k \in 1..Len(i.pts) : ~PHasIrr(i.pts[k])
    IN  Rational(IntersectsAt(Base(s), Base(o)))

InitCircle ==
    /\ InitPair(OwnCircles, Lines \cup Circles)
    /\ Exact(self, other)

SpecCircle == InitCircle /\ [][NextLine]_vars

DistSq(p, q) == Add(Powi2(Sub(p.x, q.x)), Powi2(Sub(p.y, q.y)))

OnCircle(c, p) == DistSq(p, c.center) = Powi2(c.radius)

\* the square of the distance from the point p to the Line l
LineDistSq(l, p) ==
    Div(Powi2(Sub(Add(Mul(l.a, p.x), Mul(l.b, p.y)), l.c)),
        Add(Powi2(l.a), Powi2(l.b)))

Distinct(i) == \A j, k \in 1..Len(i.pts) : j # k => i.pts[j] # i.pts[k]

\* C5: with d the distance from the center to the line, intersects_at returns
\* no point when d > r, one when d = r and two when d < r, d = 0 included,
\* and every returned point lies on the line and on the circle.
C5_LineCircle ==
    (self.kind = "Circle" /\ other.kind = "Line" /\ ints # IUnset) =>
        LET dd == LineDistSq(other, self.center)
            rr == Powi2(self.radius)
        IN  /\ Gt(dd, rr) => ints = IZero
            /\ dd = rr => ints.tag = "One"
            /\ Lt(dd, rr) => ints.tag = "Two" /\ Distinct(ints)
            /\ \A k \in 1..Len(ints.pts) :
                  OnLine(other, ints.pts[k]) /\ OnCircle(self, ints.pts[k])

\* p lies on the segment joining a and b
Between(a, b, p) ==
    /\ Cross(PSub(p, a), PSub(b, a)) = I(0)
    /\ Ge(PDot(PSub(p, a), PSub(b, a)), I(0))
    /\ Le(PDot(PSub(p, a), PSub(b, a)), DistSq(a, b))

\* C6: with d the center distance, intersects_at returns no point when
\* d > r1 + r2, one point when d = r1 + r2 (on the segment joining the centers,
\* at r1 from c1 and r2 from c2), and two points when |r1 - r2| < d < r1 + r2,
\* each at r1 from c1 and r2 from c2.
C6_CircleCircle ==
    (self.kind = "Circle" /\ other.kind = "Circle" /\ ints # IUnset) =>
        LET dd == DistSq(self.center, other.center)
            sum == Powi2(Add(self.radius, other.radius))
            dif == Powi2(Sub(self.radius, other.radius))
        IN  /\ Gt(dd, sum) => ints = IZero
            /\ dd = sum =>
                  /\ ints.tag = "One"
                  /\ Between(self.center, other.center, ints.pts[1])
                  /\ OnCircle(self, ints.pts[1]) /\ OnCircle(other, ints.pts[1])
            /\ (Lt(dif, dd) /\ Lt(dd, sum)) =>
                  /\ ints.tag = "Two" /\ Distinct(ints)
                  /\ \A k \in 1..2 :
                        OnCircle(self, ints.pts[k]) /\ OnCircle(other, ints.pts[k])

C6_Witness ==
    /\ self = Circle(PtI(-1, 0), I(5))
    /\ other = Circle(PtI(2, 0), I(4))
    /\ ints = ITwo(PtI(2, -4), PtI(2, 4))

\* C7: when one circle wholly contains the other without touching
\* (d < |r1 - r2|, concentric circles included), intersects_at returns no
\* intersection and intersects returns Zero.
C7_Containment ==
    (/\ self.kind = "Circle" /\ other.kind = "Circle"
     /\ Lt(DistSq(self.center, other.center),
           Powi2(Sub(self.radius, other.radius)))) =>
        /\ ints # IUnset => ints = IZero
        /\ cnt # CUnset => cnt = CZero

(***************************************************************************)
(* Spec: every pair of kinds, both ways round                              *)
(***************************************************************************)
MixPoints == {PtI(3, 0), PtI(3, 4), PtI(3, -4), PtI(-4, 3), PtI(0, 3), PtI(0, 0)}

MixLines ==
    {LineI(1, 0, 3), LineI(0, 1, 3), LineI(1, 0, 5), LineI(0, 1, -4),
     LineI(3, 4, 25), LineI(1, 0, 0), LineI(0, 1, 6), LineI(1, 1, 7)}

MixSegments == {Segment(p, q) : <<p, q>> \in {t \in MixPoints \X MixPoints : t[1] # t[2]}}

MixRays ==
    {Ray(p, a) : p \in {PtI(3, 0), PtI(0, 3), PtI(-4, 3), PtI(0, 0)},
                 a \in {AngOf(0), AngOf(2), AngOf(3), AngOf(6), AngOf(9)}}

MixCircles ==
    {Circle(PtI(0, 0), I(5)), Circle(PtI(6, 0), I(5)),
     Circle(PtI(0, 0), I(3)), Circle(PtI(8, 0), I(3))}

MixAngs == {AngOf(0), AngOf(2), AngOf(6), AngOf(10)}

MixArcs ==
    {Arc(PtI(0, 0), I(5), p, q, w) : p \in MixAngs, q \in MixAngs, w \in BOOLEAN}

Shapes == MixLines \cup MixSegments \cup MixRays \cup MixCircles \cup MixArcs

Init ==
    /\ InitPair(Shapes, Shapes)
    /\ Exact(self, other)

Next == CallIntersectsAt \/ CallIntersectsAtSwapped

Spec == Init /\ [][Next]_vars

PointSet(i) == {i.pts[k] : k \in 1..Len(i.pts)}

\* C2: for every mixed pair of kinds, A.intersects_at(B) and
\* B.intersects_at(A) hold the same set of points, hence the same count.
C2_Symmetry ==
    (self.kind # other.kind /\ ints # IUnset /\ rints # IUnset) =>
        /\ PointSet(ints) = PointSet(rints)
        /\ ICount(ints) = ICount(rints)

\* a Segment that holds one of the two points where its line meets the circle,
\* against an Arc that holds the other one
C2_Witness ==
    /\ self = Segment(PtI(3, 0), PtI(3, 4))
    /\ other = Arc(PtI(0, 0), I(5), AngOf(6), AngOf(0), TRUE)
    /\ ints = IZero
    /\ rints = IZero

MinQ(x, y) == IF Lt(y, x) THEN y ELSE x

MaxQ(x, y) == IF Lt(x, y) THEN y ELSE x

\* the membership test of a Segment (the closed bounding box of p, q) and of a
\* Ray ((point - init) . dir > 0)
Member(s, r) ==
    IF s.kind = "Segment"
    THEN /\ Le(MinQ(s.p.x, s.q.x), r.x) /\ Le(r.x, MaxQ(s.p.x, s.q.x))
         /\ Le(MinQ(s.p.y, s.q.y), r.y) /\ Le(r.y, MaxQ(s.p.y, s.q.y))
    ELSE Gt(PDot(PSub(r, s.init), Unit(s.ang)), I(0))

\* C8: Segment.intersects_at(X) and Ray.intersects_at(X) are exactly the points
\* of X.intersects_at(underlying line) that pass the membership test, in the
\* same order: none is added, none that passes is dropped.
C8_Restriction ==
    (self.kind \in {"Segment", "Ray"} /\ ints # IUnset) =>
        LET all == IntersectsAt(other, Base(self))
        IN  ints = FromVec(SelectSeq(all.pts, LAMBDA r : Member(self, r)))

\* of the two points where the circle meets the line x = 3, the Segment keeps
\* the one on the edge of its bounding box
C8_Witness ==
    /\ self = Segment(PtI(3, 0), PtI(3, 4))
    /\ other = Circle(PtI(0, 0), I(5))
    /\ ints = IOne(PtI(3, 4))

(***************************************************************************)
(* SpecArc: the wedge test of an Arc                                       *)
(***************************************************************************)
TableAngs == {AngOf(i) : i \in 0..NDirs}

WedgeArcs ==
    {Arc(c, I(2), p, q, w) : c \in {PtI(0, 0), PtI(1, 2)},
                             p \in TableAngs, q \in TableAngs, w \in BOOLEAN}

WedgePoints ==
    Centers \cup {PtI(4, 3), PtI(3, 4), PtI(-3, 4), PtI(-4, -3), PtI(3, -4), PtI(5, -1)}

InitArc == InitPair(WedgeArcs, WedgePoints)

\* self.bounds_contain(other)
CallBoundsContain ==
    /\ inb = "unset"
    /\ inb' = IF ArcBoundsContain(self, other) THEN "true" ELSE "false"
    /\ UNCHANGED <<self, other, cnt, ints, rints, given, edges, points, status, calls>>

NextArc == CallBoundsContain

SpecArc == InitArc /\ [][NextArc]_vars

\* the angle of (point - center), in [0, 2 pi)
AngleAt == PAng(PSub(other, self.center))

AsBool(b) == IF b THEN "true" ELSE "false"

\* C9: with ccw, bounds_contain is true iff p_ang <= t <= q_ang when
\* p_ang <= q_ang (p_ang = q_ang included), and iff t >= p_ang or t <= q_ang
\* when p_ang > q_ang; without ccw it is the negation.
C9_WedgeAsClaimed ==
    inb # "unset" =>
        LET in == IF self.p_ang <= self.q_ang
                  THEN self.p_ang <= AngleAt /\ AngleAt <= self.q_ang
                  ELSE AngleAt >= self.p_ang \/ AngleAt <= self.q_ang
        IN  inb = AsBool(IF self.ccw THEN in ELSE ~in)

\* C9, amended: the first rule applies when p_ang < q_ang; p_ang = q_ang falls
\* under the second rule, which every angle then passes.
C9_Wedge ==
    inb # "unset" =>
        LET in == IF self.p_ang < self.q_ang
                  THEN self.p_ang <= AngleAt /\ AngleAt <= self.q_ang
                  ELSE AngleAt >= self.p_ang \/ AngleAt <= self.q_ang
        IN  /\ inb = AsBool(IF self.ccw THEN in ELSE ~in)
            /\ self.p_ang = self.q_ang => inb = AsBool(self.ccw)

C9_Witness ==
    /\ self = Arc(PtI(0, 0), I(2), AngOf(3), AngOf(3), TRUE)
    /\ other = PtI(-1, -2)
    /\ inb = "true"

(***************************************************************************)
(* Edge and Boundary (boundary.rs)                                         *)
(***************************************************************************)
EdgeP(e) == IF e.kind = "Arc" THEN ArcP(e) ELSE e.p

EdgeQ(e) == IF e.kind = "Arc" THEN ArcQ(e) ELSE e.q

\* the tolerance 1e-6 of Boundary::new
Eps == Q(1, 1000000)

\* one of the asserts of Boundary::new fails
NewPanics(es) ==
    \/ Len(es) = 0
    \/ ~(\A i \in 1..(Len(es) - 1) : Lt(PDist(EdgeQ(es[i]), EdgeP(es[i + 1])), Eps))
    \/ ~Lt(PDist(EdgeP(es[1]), EdgeQ(es[Len(es)])), Eps)

\* Boundary::new(given)
BoundaryNew ==
    /\ status = "none"
    /\ IF NewPanics(given)
       THEN /\ status' = "panic"
            /\ UNCHANGED <<edges, points>>
       ELSE /\ status' = "ok"
            /\ edges' = given
            /\ points' = [i \in 1..Len(given) |-> EdgeP(given[i])]
    /\ UNCHANGED <<self, other, cnt, ints, rints, inb, given, calls>>

MaxEdges == 3

Corners == {PtI(0, 0), PtI(3, 0), PtI(0, 4), PtI(3, 4)}

EdgeSegments == {Segment(p, q) : <<p, q>> \in {t \in Corners \X Corners : t[1] # t[2]}}

\* arcs of the circle through (0,0) and (0,4), between these two points
EdgeArcs ==
    {Arc(PtI(0, 2), I(2), p, q, w) : p \in {AngOf(3), AngOf(9)},
                                     q \in {AngOf(3), AngOf(9)}, w \in BOOLEAN}

Edges == EdgeSegments \cup EdgeArcs

SeqsUpTo(S, n) == UNION {[1..k -> S] : k \in 0..n}

InitBoundary ==
    /\ given \in SeqsUpTo(Edges, MaxEdges)
    /\ edges = <<>>
    /\ points = <<>>
    /\ status = "none"
    /\ self = PtI(0, 0)
    /\ other = PtI(0, 0)
    /\ cnt = CUnset
    /\ ints = IUnset
    /\ rints = IUnset
    /\ inb = "unset"
    /\ pt = PtI(0, 0)
    /\ NoCalls

NextBoundary == BoundaryNew

SpecBoundary == InitBoundary /\ [][NextBoundary]_vars

\* where an edge starts and where it ends: for an Arc, the points of its
\* circle at p_ang and at q_ang
StartOf(e) == IF e.kind = "Arc" THEN CircleAtAng(ArcToCircle(e), e.p_ang) ELSE e.p

EndOf(e) == IF e.kind = "Arc" THEN CircleAtAng(ArcToCircle(e), e.q_ang) ELSE e.q

Near(p, q) == Lt(PDist(p, q), Eps)

\* C10: Boundary::new returns no Boundary when the edge sequence is empty, or
\* an edge ends 1e-6 or farther from where the next one starts, or the last
\* edge ends 1e-6 or farther from where the first one starts.
C10_NewRejects ==
    status = "ok" =>
        /\ Len(given) > 0
        /\ \A i \in 1..(Len(given) - 1) : Near(EndOf(given[i]), StartOf(given[i + 1]))
        /\ Near(EndOf(given[Len(given)]), StartOf(given[1]))

\* a chain whose every edge ends where the next one starts, the last one
\* where the first one starts
Closed(es) ==
    /\ Len(es) > 0
    /\ \A i \in 1..(Len(es) - 1) : Near(EndOf(es[i]), StartOf(es[i + 1]))
    /\ Near(EndOf(es[Len(es)]), StartOf(es[1]))

\* C11: Boundary::new builds a Boundary from every closed chain of Arcs and
\* Segments, the Arc from p_ang to another q_ang followed by the Segment
\* back to its start included.
C11_AcceptsClosed == (status # "none" /\ Closed(given)) => status = "ok"

(***************************************************************************)
(* Area, orientation and containment of a Boundary (boundary.rs)           *)
(***************************************************************************)
\* Point::shoelace
Shoelace(p, q) == Sub(Mul(p.x, q.y), Mul(q.x, p.y))

\* the n of a.sample_points(n) in Edge::shoelace
ShoelaceSamples == 10

\* a quarter turn: the angles 0, pi/2, pi, 3 pi/2 and 2 pi of the table are its
\* multiples, and an equal division of them that lands on a multiple is exact
Quarter == AngOf(NDirs \div 4)

\* Arc::sample_points(n), n >= 2: the first point is p(), the i-th one is at
\* p_ang + i * (q_ang - p_ang) / (n - 1). With p_ang = q_ang every angle is
\* p_ang; otherwise the last angle is q_ang, an angle between that is a
\* multiple of the quarter turn is that table angle, and the other angles
\* between are no angles of the table: the coordinates of their points are
\* not rational.
SamplePoints(a, n) ==
    [i \in 1..n |->
        IF i = 1 THEN ArcP(a)
        ELSE IF a.p_ang = a.q_ang THEN CircleAtAng(ArcToCircle(a), a.p_ang)
        ELSE IF i = n THEN CircleAtAng(ArcToCircle(a), a.q_ang)
        ELSE IF /\ a.p_ang % Quarter = 0
                /\ a.q_ang % Quarter = 0
                /\ ((a.q_ang - a.p_ang) * (i - 1)) % (Quarter * (n - 1)) = 0
             THEN CircleAtAng(ArcToCircle(a),
                              a.p_ang + (((a.q_ang - a.p_ang) * (i - 1)) \div (n - 1)))
        ELSE Pt(Irr, Irr)]

RECURSIVE SumShoelace(_, _)
\* the sum of p.shoelace(q) over the pairs of neighbours from the k-th on
SumShoelace(sampled, k) ==
    IF k >= Len(sampled) THEN I(0)
    ELSE Add(Shoelace(sampled[k], sampled[k + 1]), SumShoelace(sampled, k + 1))

\* Edge::shoelace
EdgeShoelace(e) ==
    IF e.kind = "Segment" THEN Div(Shoelace(e.p, e.q), I(2))
    ELSE Div(SumShoelace(SamplePoints(e, ShoelaceSamples), 1), I(2))

\* Edge::reverse
EdgeReverse(e) == IF e.kind = "Segment" THEN SegReverse(e) ELSE ArcReverse(e)

\* Reversed without the reversal of each edge
ReversedOrderOnly(es) == [i \in 1..Len(es) |-> es[Len(es) + 1 - i]]

\* the edges Boundary::reverse stores: iter().rev().map(reverse)
Reversed(es) == [i \in 1..Len(es) |-> EdgeReverse(es[Len(es) + 1 - i])]

RECURSIVE SumArea(_, _)
SumArea(es, k) ==
    IF k > Len(es) THEN I(0) ELSE Add(EdgeShoelace(es[k]), SumArea(es, k + 1))

\* Boundary::area
Area(es) == SumArea(es, 1)

\* Count::is_odd
IsOdd(c) ==
    CASE c.tag = "Zero" -> FALSE
      [] c.tag = "One" -> TRUE
      [] c.tag = "Many" -> c.n % 2 = 1
      [] c.tag = "Inf" -> FALSE

\* Count::is_zero
IsZero(c) == c.tag = "Zero"

\* the angle of the ray Boundary::contains casts. 0.1337 rad has no rational
\* cosine; the ray of the model has the first direction of the table after
\* the x axis, which like it is neither horizontal nor vertical.
CastAng == AngOf(1)

\* impl Intersect<Ray> for Edge and impl Intersect<Edge> for Edge: the
\* intersects_at of the Arc or the Segment inside
EdgeIntersectsAt(e, o) == IntersectsAt(e, o)

\* ray.intersects(e): reflexive_intersect!(Ray, Edge), then the trait's
\* default count
RayIntersectsEdge(ray, e) == ICount(EdgeIntersectsAt(e, ray))

RECURSIVE EvenCrossing(_, _, _)
\* even_crossing of Boundary::contains after the first k edges
EvenCrossing(es, ray, k) ==
    IF k = 0 THEN TRUE
    ELSE LET Toggle(even) == IF IsOdd(RayIntersectsEdge(ray, es[k])) THEN ~even ELSE even
         IN  Toggle(EvenCrossing(es, ray, k - 1))

\* Boundary::contains
Contains(es, x) == ~EvenCrossing(es, Ray(x, CastAng), Len(es))

MaxOps == 2

\* self.reverse()
Reverse ==
    /\ status = "ok"
    /\ Len(ops) < MaxOps
    /\ edges' = Reversed(edges)
    /\ ops' = Append(ops, "reverse")
    /\ UNCHANGED <<self, other, cnt, ints, rints, inb, given, points, status,
                   pt, hits, held, out>>

\* orient_positive reversing a Boundary of area zero as well
OrientPositiveOnZero ==
    /\ status = "ok"
    /\ Len(ops) < MaxOps
    /\ edges' = IF Le(Area(edges), I(0)) THEN Reversed(edges) ELSE edges
    /\ ops' = Append(ops, "orient_positive")
    /\ UNCHANGED <<self, other, cnt, ints, rints, inb, given, points, status,
                   pt, hits, held, out>>

\* self.orient_positive()
OrientPositive ==
    /\ status = "ok"
    /\ Len(ops) < MaxOps
    /\ edges' = IF Lt(Area(edges), I(0)) THEN Reversed(edges) ELSE edges
    /\ ops' = Append(ops, "orient_positive")
    /\ UNCHANGED <<self, other, cnt, ints, rints, inb, given, points, status,
                   pt, hits, held, out>>

\* self.orient_negative()
OrientNegative ==
    /\ status = "ok"
    /\ Len(ops) < MaxOps
    /\ edges' = IF Gt(Area(edges), I(0)) THEN Reversed(edges) ELSE edges
    /\ ops' = Append(ops, "orient_negative")
    /\ UNCHANGED <<self, other, cnt, ints, rints, inb, given, points, status,
                   pt, hits, held, out>>

\* the points of the ray's line on the circles of the Arcs of es are rational
ExactCast(es, x) ==
    \A k \in 1..Len(es) :
        es[k].kind = "Arc" =>
            LET Rational(i) == \A j \in 1..Len(i.pts) : ~PHasIrr(i.pts[j])
            IN  Rational(IntersectsAt(ArcToCircle(es[k]), RayToLine(Ray(x, CastAng))))

QueryPoints ==
    {Pt(Q(1, 2), Q(1, 2)), Pt(Q(1, 2), Q(5, 8)), Pt(Q(-1, 2), Q(-3, 8)), PtI(0, 0),
     Pt(I(0), Q(3, 2)), PtI(2, 3), PtI(-6, -3), Pt(I(0), Q(5, 2))}

\* self.contains(x)
CallContains ==
    /\ status = "ok"
    /\ \E x \in {q \in QueryPoints : ExactCast(edges, q)} :
        /\ pt' = x
        /\ inb' = AsBool(Contains(edges, x))
    /\ UNCHANGED <<self, other, cnt, ints, rints, given, edges, points, status,
                   ops, hits, held, out>>

\* the closed chain of Segments through the points of vs
Cycle(vs) == [i \in 1..Len(vs) |-> Segment(vs[i], vs[(i % Len(vs)) + 1])]

Injective(vs) == \A i, j \in DOMAIN vs : i # j => vs[i] # vs[j]

UnitCorners == {PtI(0, 0), PtI(1, 0), PtI(1, 1), PtI(0, 1)}

\* the unit square of tests::square_bound, from every corner, both ways round,
\* and the chains that cross themselves
Squares == {Cycle(vs) : vs \in {ws \in [1..4 -> UnitCorners] : Injective(ws)}}

Triangles == {Cycle(vs) : vs \in {ws \in [1..3 -> Corners \ {PtI(3, 4)}] : Injective(ws)}}

\* the full circle of tests::circle_bound, and the same Arc without ccw
FullCircles ==
    {<<Arc(PtI(0, 0), I(2), a, a, w)>> : a \in {AngOf(0), AngOf(4)}, w \in BOOLEAN}

\* an Arc from (0,0) round or half round the circle of centre (0,2), alone,
\* before a Segment, or before two Segments to (3,0) and back
WithArcs ==
    UNION {{<<a>>, <<a, Segment(PtI(0, 4), PtI(0, 0))>>,
            <<a, Segment(PtI(0, 0), PtI(3, 0)), Segment(PtI(3, 0), PtI(0, 0))>>} :
           a \in {Arc(PtI(0, 2), I(2), AngOf(9), q, w) : q \in {AngOf(3), AngOf(9)},
                                                         w \in BOOLEAN}}

Loops == Squares \cup Triangles \cup FullCircles \cup WithArcs \cup {<<>>}

InitOrient ==
    /\ given \in Loops
    /\ edges = <<>>
    /\ points = <<>>
    /\ status = "none"
    /\ self = PtI(0, 0)
    /\ other = PtI(0, 0)
    /\ cnt = CUnset
    /\ ints = IUnset
    /\ rints = IUnset
    /\ inb = "unset"
    /\ pt = PtI(0, 0)
    /\ NoCalls

NextOrient ==
    \/ BoundaryNew
    \/ Reverse
    \/ OrientPositive
    \/ OrientNegative
    \/ CallContains

SpecOrient == InitOrient /\ [][NextOrient]_vars

\* the same Segment, or the same Arc of the same circle, run the other way
Backwards(e, f) ==
    /\ f.kind = e.kind
    /\ e.kind = "Arc" => (ArcToCircle(f) = ArcToCircle(e) /\ f.ccw = ~e.ccw)
    /\ StartOf(f) = EndOf(e)
    /\ EndOf(f) = StartOf(e)

\* C12: reverse() turns the edges [e1, ..., en] into [rev(en), ..., rev(e1)],
\* rev(e) being e with its endpoints swapped, and area() after it is -area()
\* before it (wherever the area is a rational number).
C12_ReverseNegates ==
    [][ops' = Append(ops, "reverse") =>
        /\ Len(edges') = Len(edges)
        /\ \A i \in 1..Len(edges) : Backwards(edges[Len(edges) + 1 - i], edges'[i])
        /\ Area(edges) # Irr => Area(edges') = Neg(Area(edges))]_vars

\* the unit square: area 1, and -1 once reversed
C12_Witness ==
    /\ ops = <<"reverse">>
    /\ Len(edges) = 4
    /\ Area(given) = I(1)
    /\ Area(edges) = I(-1)

\* C13: contains(x) returns the same value whichever way round the boundary
\* runs: after any reverse, orient_positive and orient_negative calls it is
\* what it was for the boundary as built.
C13_OrientationFree ==
    (status = "ok" /\ inb # "unset") => inb = AsBool(Contains(given, pt))

\* the parameters t > 0 at which the ray x + t * d meets the carrier of the
\* edge e, by solving for t: one equation of degree 1 for a Segment, of
\* degree 2 for an Arc
MeetsAt(e, x, d) ==
    IF e.kind = "Segment"
    THEN LET den == Cross(d, PSub(e.q, e.p))
         IN  IF Sgn(den) = 0 THEN {}
             ELSE {Div(Cross(PSub(e.p, x), PSub(e.q, e.p)), den)}
    ELSE LET b == PDot(d, PSub(x, e.center))
             q == Sub(PDot(PSub(x, e.center), PSub(x, e.center)), Powi2(e.radius))
             root == Sqrt(Sub(Powi2(b), q))
         IN  IF root = NaN THEN {}
             ELSE {Sub(Neg(b), root), Add(Neg(b), root)}

\* the points the ray from x along d has in common with the edge e
Crossings(e, x, d) ==
    {r \in {PAdd(x, PMul(d, t)) : t \in {u \in MeetsAt(e, x, d) : Gt(u, I(0))}} :
        IF e.kind = "Segment" THEN Member(e, r) ELSE ArcBoundsContain(e, r)}

RECURSIVE TotalCrossings(_, _, _)
\* the number of points the ray has in common with the first k edges, summed
\* over the edges
TotalCrossings(es, x, k) ==
    IF k = 0 THEN 0
    ELSE Cardinality(Crossings(es[k], x, Unit(CastAng))) + TotalCrossings(es, x, k - 1)

\* C14: contains(x) returns true iff the number of points the cast ray has
\* in common with the edges, summed over the edges, is odd (a step that
\* leaves ops alone on a built Boundary is a call of contains).
C14_EvenOdd ==
    [][(status = "ok" /\ ops' = ops) =>
        inb' = AsBool(TotalCrossings(edges, pt', Len(edges)) % 2 = 1)]_vars

IsReverseOf(es, fs) ==
    /\ Len(fs) = Len(es)
    /\ \A i \in 1..Len(es) : Backwards(es[Len(es) + 1 - i], fs[i])

Last(q) == q[Len(q)]

\* what orient_positive (want = 1) and orient_negative (want = -1) are to do
\* in a step from the edges es to the edges fs
Oriented(es, fs, want) ==
    /\ Sgn(Area(fs)) * want >= 0
    /\ IF Sgn(Area(es)) * want < 0 THEN IsReverseOf(es, fs) ELSE fs = es

\* C15: after orient_positive() the area is >= 0, after orient_negative() it
\* is <= 0; each reverses the boundary exactly when the area has the opposite
\* strict sign and otherwise leaves the edges as they are; the second of two
\* calls in a row changes nothing (wherever the area is a rational number).
C15_Orient ==
    [][(status = "ok" /\ ops' # ops /\ Area(edges) # Irr) =>
        /\ Last(ops') = "orient_positive" => Oriented(edges, edges', 1)
        /\ Last(ops') = "orient_negative" => Oriented(edges, edges', -1)
        /\ (ops # <<>> /\ Last(ops') = Last(ops) /\ Last(ops) # "reverse") => edges' = edges]_vars

\* the unit square given clockwise, turned by the first orient_positive and
\* left alone by the second
C15_Witness ==
    /\ ops = <<"orient_positive", "orient_positive">>
    /\ Area(given) = I(-1)
    /\ Area(edges) = I(1)
    /\ IsReverseOf(given, edges)

\* one Arc with p_ang = q_ang and ccw = true
FullCircle(es) ==
    /\ Len(es) = 1
    /\ es[1].kind = "Arc"
    /\ es[1].p_ang = es[1].q_ang
    /\ es[1].ccw

\* the cast ray from x lies on a tangent of the circle of a
Tangent(a, x) == AbsF(Cross(Unit(CastAng), PSub(x, a.center))) = a.radius

\* C19: a Boundary of one full-circle Arc (centre c, radius r) contains x
\* whenever |x - c| < r, and does not contain x whenever |x - c| > r and the
\* cast ray is not tangent to the circle.
C19_FullCircle ==
    [][(status = "ok" /\ ops' = ops /\ FullCircle(edges)) =>
        LET a == edges[1]
            dd == DistSq(pt', a.center)
        IN  /\ Lt(dd, Powi2(a.radius)) => inb' = "true"
            /\ (Gt(dd, Powi2(a.radius)) /\ ~Tangent(a, pt')) => inb' = "false"]_vars

(***************************************************************************)
(* Two Boundaries: intersection and containment (boundary.rs)              *)
(***************************************************************************)
\* the Boundary that Boundary::new returns for a chain it accepts
Built(es) == [edges |-> es, points |-> [i \in 1..Len(es) |-> EdgeP(es[i])]]

RECURSIVE CollectPairs(_, _, _)
\* res of impl Intersect<Boundary> for Boundary after the first k pairings;
\* the pairings run through other's edges for each edge of self in turn
CollectPairs(es, fs, k) ==
    IF k = 0 THEN <<>>
    ELSE CollectPairs(es, fs, k - 1)
         \o EdgeIntersectsAt(es[((k - 1) \div Len(fs)) + 1], fs[((k - 1) % Len(fs)) + 1]).pts

\* every edge of self against the first edge of other only
BoundaryIntersectsAtFirstOnly(es, fs) == CollectPairs(es, <<fs[1]>>, Len(es))

\* self.intersects_at(other) on two Boundaries
BoundaryIntersectsAt(es, fs) == CollectPairs(es, fs, Len(es) * Len(fs))

\* self.intersects(other): the trait's default count
BoundaryIntersects(es, fs) == CountFrom(Len(BoundaryIntersectsAt(es, fs)))

\* contains_boundary but for its assert
ContainsBoundaryUnchecked(es, o) == AsBool(Contains(es, o.points[1]))

\* self.contains_boundary(other)
ContainsBoundary(es, o) ==
    IF ~IsZero(BoundaryIntersects(es, o.edges)) THEN "panic"
    ELSE AsBool(Contains(es, o.points[1]))

\* a Vec<Point> that a call returned
Vec(v) == [tag |-> "Vec", pts |-> v]

\* self.intersects_at(&other)
CallBoundaryIntersectsAt ==
    /\ status = "ok"
    /\ hits = IUnset
    /\ hits' = Vec(BoundaryIntersectsAt(edges, other.edges))
    /\ UNCHANGED <<self, other, cnt, ints, rints, inb, given, edges, points, status,
                   pt, ops, held, out>>

\* self.contains_boundary(&other)
CallContainsBoundary ==
    /\ status = "ok"
    /\ held = "unset"
    /\ held' = ContainsBoundary(edges, other)
    /\ UNCHANGED <<self, other, cnt, ints, rints, inb, given, edges, points, status,
                   pt, ops, hits, out>>

\* the rectangle with the corners lo and hi, counterclockwise from lo
Rect(lo, hi) == Cycle(<<lo, Pt(hi.x, lo.y), hi, Pt(lo.x, hi.y)>>)

\* the unit square and the unit circle of tests::bounds_intersect, rectangles
\* around, across and beside the square, a triangle, circles around them, and
\* a circle followed by two Segments out and back
PairLoops ==
    {Rect(PtI(0, 0), PtI(1, 1)), Rect(PtI(-1, -1), PtI(2, 2)),
     Rect(Pt(Q(1, 2), Q(1, 2)), Pt(Q(3, 2), Q(3, 2))), Rect(PtI(5, 5), PtI(6, 6)),
     Rect(PtI(-3, -4), PtI(3, 4)), Rect(PtI(1, 1), PtI(3, 4)),
     Cycle(<<PtI(0, 0), PtI(3, 0), PtI(0, 4)>>),
     Cycle(<<PtI(1, 1), PtI(0, 4), PtI(3, 0)>>),
     <<Arc(PtI(0, 0), I(1), AngOf(0), AngOf(0), TRUE)>>,
     <<Arc(PtI(0, 0), I(5), AngOf(0), AngOf(0), TRUE)>>,
     <<Arc(PtI(3, 0), I(5), AngOf(6), AngOf(6), TRUE)>>,
     <<Arc(PtI(0, 2), I(2), AngOf(9), AngOf(9), TRUE),
       Segment(PtI(0, 0), PtI(3, 0)), Segment(PtI(3, 0), PtI(0, 0))>>}

\* every pair of edges meets in points with rational coordinates, and so
\* does the ray cast from other's first point
ExactPair(es, fs) ==
    /\ \A i \in 1..Len(es) : \A j \in 1..Len(fs) : Exact(es[i], fs[j])
    /\ ExactCast(es, EdgeP(fs[1]))

InitBoundaries ==
    /\ \E ab \in {t \in PairLoops \X PairLoops : ExactPair(t[1], t[2])} :
        /\ given = ab[1]
        /\ other = Built(ab[2])
    /\ edges = <<>>
    /\ points = <<>>
    /\ status = "none"
    /\ self = PtI(0, 0)
    /\ cnt = CUnset
    /\ ints = IUnset
    /\ rints = IUnset
    /\ inb = "unset"
    /\ pt = PtI(0, 0)
    /\ NoCalls

NextBoundaries ==
    \/ BoundaryNew
    \/ CallBoundaryIntersectsAt
    \/ CallContainsBoundary

SpecBoundaries == InitBoundaries /\ [][NextBoundaries]_vars

\* the points of the j-th edge of other on the i-th edge of self
PairHits(i, j) == EdgeIntersectsAt(edges[i], other.edges[j]).pts

PairIndex == (1..Len(edges)) \X (1..Len(other.edges))

RECURSIVE HitsBefore(_, _)
\* the number of points that the pairings in front of (i, j) contribute
HitsBefore(i, j) ==
    IF j > 1 THEN HitsBefore(i, j - 1) + Len(PairHits(i, j - 1))
    ELSE IF i > 1 THEN HitsBefore(i - 1, Len(other.edges)) + Len(PairHits(i - 1, Len(other.edges)))
    ELSE 0

\* C17: A.intersects_at(B) is the concatenation of e1.intersects_at(e2) over
\* the ordered pairs (e1 of A, e2 of B), each pair once: the points of every
\* pair stand in the result behind those of the pairs before it, the length
\* of the result is the sum of the pairs' counts, and the result is empty
\* iff every pair's is.
C17_AllPairs ==
    (status = "ok" /\ hits # IUnset) =>
        /\ Len(hits.pts) = HitsBefore(Len(edges), Len(other.edges))
                           + Len(PairHits(Len(edges), Len(other.edges)))
        /\ \A ij \in PairIndex :
            SubSeq(hits.pts, HitsBefore(ij[1], ij[2]) + 1,
                   HitsBefore(ij[1], ij[2]) + Len(PairHits(ij[1], ij[2])))
                = PairHits(ij[1], ij[2])
        /\ hits.pts = <<>> <=> \A ij \in PairIndex : PairHits(ij[1], ij[2]) = <<>>

\* the unit square against the square set across its corner (1, 1): its
\* second and third edges are each cut once
C17_Witness ==
    /\ status = "ok"
    /\ edges = Rect(PtI(0, 0), PtI(1, 1))
    /\ other = Built(Rect(Pt(Q(1, 2), Q(1, 2)), Pt(Q(3, 2), Q(3, 2))))
    /\ hits = Vec(<<Pt(I(1), Q(1, 2)), Pt(Q(1, 2), I(1))>>)

\* some edge of A has a point of some edge of B: A.intersects(B) is not Zero
Touching == \E ij \in PairIndex : PairHits(ij[1], ij[2]) # <<>>

\* C16: A.contains_boundary(B) panics, and returns no boolean, whenever
\* A.intersects(B) is not Zero; when no pair of edges intersects it returns
\* A.contains(first vertex of B).
C16_ContainsBoundary ==
    (status = "ok" /\ held # "unset") =>
        IF Touching THEN held = "panic"
        ELSE held = AsBool(Contains(edges, EdgeP(other.edges[1])))

\* the unit square asked about the square set across its corner
C16_Witness ==
    /\ status = "ok"
    /\ edges = Rect(PtI(0, 0), PtI(1, 1))
    /\ other = Built(Rect(Pt(Q(1, 2), Q(1, 2)), Pt(Q(3, 2), Q(3, 2))))
    /\ Touching
    /\ held = "panic"

(***************************************************************************)
(* Dist for Segment (dist.rs)                                              *)
(***************************************************************************)
\* Line::perp_through(r): the perpendicular to the line through r. line.rs
\* has perp_origin only; this is perp_origin with c for the point r.
PerpThrough(l, r) ==
    LET a == Mul(I(-1), l.b)
        b == l.a
    IN  Line(a, b, Add(Mul(a, r.x), Mul(b, r.y)))

\* Line::projected(r): r projected onto the line, found by intersecting the
\* line with the perpendicular through r; Option<Point> as in GetOne
Projected(l, r) == GetOne(LineIntersectsAt(PerpThrough(l, r), l))

\* Dist for Segment choosing the farther node when out of bounds
SegDistFarNode(s, r) ==
    LET Choose(projected) ==
            IF projected = <<>> THEN OutPanic
            ELSE IF SegBoundsContain(s, projected[1])
                 THEN Returned(PDist(projected[1], r))
            ELSE Returned(MaxF(PDist(r, s.p), PDist(r, s.q)))
    IN  Choose(Projected(SegToLine(s), r))

\* impl Dist for Segment
SegDist(s, r) ==
    LET Choose(projected) ==
            IF projected = <<>> THEN OutPanic
            ELSE IF SegBoundsContain(s, projected[1])
                 THEN Returned(PDist(projected[1], r))
            ELSE Returned(MinF(PDist(r, s.p), PDist(r, s.q)))
    IN  Choose(Projected(SegToLine(s), r))

\* self.dist(other)
CallDist ==
    /\ out = OutUnset
    /\ out' = SegDist(self, other)
    /\ UNCHANGED <<self, other, cnt, ints, rints, inb, given, edges, points, status,
                   pt, ops, hits, held>>

MaxGrid == 4

\* the Segments between two different points of the grid
GridSegments ==
    {Segment(PtI(t[1], t[2]), PtI(t[3], t[4])) :
        t \in {u \in (0..MaxGrid) \X (0..MaxGrid) \X (0..MaxGrid) \X (0..MaxGrid) :
                  u[1] # u[3] \/ u[2] # u[4]}}

GridPoints == {PtI(x, y) : x \in -1..(MaxGrid + 1), y \in -1..(MaxGrid + 1)}

\* the distances dist computes on the way are rational
ExactDist(s, r) ==
    LET Rational(projected) ==
            IF SegBoundsContain(s, projected[1]) THEN PDist(projected[1], r) # Irr
            ELSE PDist(r, s.p) # Irr /\ PDist(r, s.q) # Irr
    IN  Rational(Projected(SegToLine(s), r))

InitDist ==
    /\ \E sr \in {t \in GridSegments \X GridPoints : ExactDist(t[1], t[2])} :
        /\ self = sr[1]
        /\ other = sr[2]
    /\ cnt = CUnset
    /\ ints = IUnset
    /\ rints = IUnset
    /\ inb = "unset"
    /\ NoBoundary
    /\ pt = PtI(0, 0)
    /\ NoCalls

NextDist == CallDist

SpecDist == InitDist /\ [][NextDist]_vars

\* the point of the line through s.p and s.q nearest to r
Foot(s, r) ==
    LET v == PSub(s.q, s.p)
    IN  PAdd(s.p, PMul(v, Div(PDot(PSub(r, s.p), v), PDot(v, v))))

\* C18: for a Segment s with p # q and a point r, s.dist(r) is at most the
\* smaller of the distances from r to s.p and to s.q; it is the distance from
\* r to its projection on the line of s when the projection lies in the
\* bounding box of s, and the smaller node distance otherwise. (Distances
\* are compared by their squares.)
C18_SegmentDist ==
    out # OutUnset =>
        LET nodes == MinQ(DistSq(other, self.p), DistSq(other, self.q))
        IN  /\ out.tag = "Returned"
            /\ Ge(out.val, I(0))
            /\ Le(Powi2(out.val), nodes)
            /\ Powi2(out.val) = IF Member(self, Foot(self, other))
                                THEN DistSq(other, Foot(self, other))
                                ELSE nodes

\* (3, 4) projects into the Segment from (0, 0) to (4, 0), 4 away, nearer
\* than the nodes at distance 5 and sqrt 17
C18_Witness ==
    /\ self = Segment(PtI(0, 0), PtI(4, 0))
    /\ other = PtI(3, 4)
    /\ out = Returned(I(4))

(***************************************************************************)
(* Point and Segment in three dimensions (three/point.rs, three/line.rs)   *)
(***************************************************************************)
Pt3(x, y, z) == [x |-> x, y |-> y, z |-> z]

Pt3I(x, y, z) == Pt3(I(x), I(y), I(z))

P3Add(p, q) == Pt3(Add(p.x, q.x), Add(p.y, q.y), Add(p.z, q.z))

P3Sub(p, q) == Pt3(Sub(p.x, q.x), Sub(p.y, q.y), Sub(p.z, q.z))

P3Mul(p, s) == Pt3(Mul(p.x, s), Mul(p.y, s), Mul(p.z, s))

P3Dot(p, q) == Add(Add(Mul(p.x, q.x), Mul(p.y, q.y)), Mul(p.z, q.z))

\* struct Segment(pub Point, pub Point): the fields .0 and .1
Segment3(p0, p1) == [kind |-> "Segment3", p0 |-> p0, p1 |-> p1]

\* f64::clamp(min, max): NaN stays NaN
ClampF(t, min, max) == IF Lt(t, min) THEN min ELSE IF Gt(t, max) THEN max ELSE t

\* Segment::clamp without the clamp of t: the projection on the line
Clamp3Unbounded(s, p) ==
    LET ab == P3Sub(s.p1, s.p0)
        ap == P3Sub(p, s.p0)
        t == Div(P3Dot(ab, ap), P3Dot(ab, ab))
    IN  P3Add(s.p0, P3Mul(ab, t))

\* Segment::clamp
Clamp3(s, p) ==
    LET ab == P3Sub(s.p1, s.p0)
        ap == P3Sub(p, s.p0)
        t == ClampF(Div(P3Dot(ab, ap), P3Dot(ab, ab)), I(0), I(1))
    IN  P3Add(s.p0, P3Mul(ab, t))

\* self.clamp(other)
CallClamp ==
    /\ out = OutUnset
    /\ out' = Returned(Clamp3(self, other))
    /\ UNCHANGED <<self, other, cnt, ints, rints, inb, given, edges, points, status,
                   pt, ops, hits, held>>

MaxSpan == 1

\* the corners of the cube of side MaxSpan
Corners3 == {Pt3I(x, y, z) : x \in 0..MaxSpan, y \in 0..MaxSpan, z \in 0..MaxSpan}

Segments3 == {Segment3(t[1], t[2]) : t \in {u \in Corners3 \X Corners3 : u[1] # u[2]}}

\* the points of the grid in and one step around the cube
Points3 ==
    {Pt3I(x, y, z) : x \in -1..(MaxSpan + 1), y \in -1..(MaxSpan + 1),
                     z \in -1..(MaxSpan + 1)}

InitClamp ==
    /\ self \in Segments3
    /\ other \in Points3
    /\ cnt = CUnset
    /\ ints = IUnset
    /\ rints = IUnset
    /\ inb = "unset"
    /\ NoBoundary
    /\ pt = PtI(0, 0)
    /\ NoCalls

NextClamp == CallClamp

SpecClamp == InitClamp /\ [][NextClamp]_vars

\* ((b - a) . (p - a)) / ((b - a) . (b - a))
Along(s, p) ==
    Div(P3Dot(P3Sub(s.p1, s.p0), P3Sub(p, s.p0)),
        P3Dot(P3Sub(s.p1, s.p0), P3Sub(s.p1, s.p0)))

\* p is a + u * (b - a) for some u in [0, 1]
OnSegment3(s, p) ==
    /\ Le(I(0), Along(s, p))
    /\ Le(Along(s, p), I(1))
    /\ p = P3Add(s.p0, P3Mul(P3Sub(s.p1, s.p0), Along(s, p)))

\* C20: for a Segment (a, b) with a # b and a point p, clamp(p) is
\* a + t * (b - a) with t = ((b - a) . (p - a)) / ((b - a) . (b - a)) limited
\* to [0, 1]: p itself when p is on the Segment, a or b when p projects
\* beyond that end, and clamp(clamp(p)) = clamp(p).
C20_Clamp ==
    out # OutUnset =>
        LET t == Along(self, other)
            limited == IF Lt(t, I(0)) THEN I(0) ELSE IF Lt(I(1), t) THEN I(1) ELSE t
        IN  /\ out.val = P3Add(self.p0, P3Mul(P3Sub(self.p1, self.p0), limited))
            /\ OnSegment3(self, other) => out.val = other
            /\ Lt(t, I(0)) => out.val = self.p0
            /\ Gt(t, I(1)) => out.val = self.p1
            /\ OnSegment3(self, out.val)
            /\ Clamp3(self, out.val) = out.val

\* tests::clamp: the origin is clamped to the middle of (0,1,0)-(1,0,0)
C20_Witness ==
    /\ self = Segment3(Pt3I(0, 1, 0), Pt3I(1, 0, 0))
    /\ other = Pt3I(0, 0, 0)
    /\ out = Returned(Pt3(Q(1, 2), Q(1, 2), I(0)))

\* C21: after Boundary::new and any reverse, orient_positive and
\* orient_negative calls the edges are as many as at construction, not none,
\* and pass the checks of Boundary::new again: each edge's q() is within 1e-6
\* of the next edge's p(), the last edge's q() of the first edge's p().
C21_StaysClosed ==
    status = "ok" =>
        /\ Len(edges) = Len(given)
        /\ Len(edges) > 0
        /\ \A i \in 1..(Len(edges) - 1) : Near(EdgeQ(edges[i]), EdgeP(edges[i + 1]))
        /\ Near(EdgeQ(edges[Len(edges)]), EdgeP(edges[1]))

\* C25: in every state of a Boundary, after construction and after any
\* reverse, orient_positive and orient_negative calls, points() is, element
\* by element and in order, the list of the start points p() of the current
\* edges.
C25_PointsCache ==
    status = "ok" =>
        /\ Len(points) = Len(edges)
        /\ \A i \in 1..Len(edges) : points[i] = EdgeP(edges[i])

\* on which side of the edge e the point x lies: 1 left, -1 right, 0 on its line
Side(e, x) == Sgn(Cross(PSub(e.q, e.p), PSub(x, e.p)))

\* a convex polygon of Segments: every edge has the start of the edge after
\* the next one strictly on the same side
Convex(es) ==
    /\ Len(es) >= 3
    /\ \A k \in 1..Len(es) : es[k].kind = "Segment"
    /\ \E w \in {1, -1} :
        \A k \in 1..Len(es) : Side(es[k], es[(k % Len(es)) + 1].q) = w

StrictlyInside(es, x) == \E w \in {1, -1} : \A k \in 1..Len(es) : Side(es[k], x) = w

StrictlyOutside(es, x) ==
    \E k \in 1..Len(es) : Side(es[k], x) = -Side(es[k], es[(k % Len(es)) + 1].q)

\* the ray cast from x passes through the start of some edge
ThroughVertex(es, x) ==
    \E k \in 1..Len(es) :
        /\ Sgn(Cross(Unit(CastAng), PSub(es[k].p, x))) = 0
        /\ Sgn(PDot(Unit(CastAng), PSub(es[k].p, x))) > 0

\* C22: for a simple polygon of Segments, contains(x) is true for x
\* strictly inside and false for x strictly outside also when the cast ray
\* passes through a vertex that two consecutive edges share.
C22_VertexRobust ==
    [][(status = "ok" /\ ops' = ops /\ Convex(edges) /\ ThroughVertex(edges, pt')) =>
        /\ StrictlyInside(edges, pt') => inb' = "true"
        /\ StrictlyOutside(edges, pt') => inb' = "false"]_vars

(***************************************************************************)
(* SpecArcDist: the distance from an Arc to a point (dist.rs)              *)
(***************************************************************************)
\* impl Dist for Circle
CircleDist(c, r) == AbsF(Sub(PDist(c.center, r), c.radius))

\* impl Dist for Arc
ArcDist(a, r) ==
    IF ArcBoundsContain(a, r) THEN Returned(CircleDist(ArcToCircle(a), r))
    ELSE Returned(MinF(PDist(r, ArcP(a)), PDist(r, ArcQ(a))))

\* self.dist(other), self an Arc
CallArcDist ==
    /\ out = OutUnset
    /\ out' = ArcDist(self, other)
    /\ UNCHANGED <<self, other, cnt, ints, rints, inb, given, edges, points, status,
                   pt, ops, hits, held>>

\* the distances from r to the centre and to the circle points at p_ang and
\* q_ang are rational
ExactArcDist(a, r) ==
    /\ PDist(a.center, r) # Irr
    /\ PDist(r, CircleAtAng(ArcToCircle(a), a.p_ang)) # Irr
    /\ PDist(r, CircleAtAng(ArcToCircle(a), a.q_ang)) # Irr

DistArcs ==
    {Arc(PtI(0, 0), I(2), p, q, w) : p \in TableAngs, q \in TableAngs, w \in BOOLEAN}

DistPoints == {PtI(x, y) : x \in (-MaxGrid)..MaxGrid, y \in (-MaxGrid)..MaxGrid}

InitArcDist ==
    /\ \E ar \in {t \in DistArcs \X DistPoints : ExactArcDist(t[1], t[2])} :
        /\ self = ar[1]
        /\ other = ar[2]
    /\ cnt = CUnset
    /\ ints = IUnset
    /\ rints = IUnset
    /\ inb = "unset"
    /\ NoBoundary
    /\ pt = PtI(0, 0)
    /\ NoCalls

NextArcDist == CallArcDist

SpecArcDist == InitArcDist /\ [][NextArcDist]_vars

\* C23: for an Arc and a point r with bounds_contain(r) false, dist(r) is the
\* smaller of the distances from r to the circle points at p_ang and at
\* q_ang; with bounds_contain(r) true it is | |r - center| - radius |.
C23_ArcDist ==
    out # OutUnset =>
        out = Returned(IF ArcBoundsContain(self, other)
                       THEN AbsF(Sub(PDist(other, self.center), self.radius))
                       ELSE MinQ(PDist(other, CircleAtAng(ArcToCircle(self), self.p_ang)),
                                 PDist(other, CircleAtAng(ArcToCircle(self), self.q_ang))))

(***************************************************************************)
(* SpecSegments: Edge::into_segments (boundary.rs)                         *)
(***************************************************************************)
\* Arc::arc_length: the radius times the angle swept from p_ang to q_ang in
\* the direction of the arc, here in units of pi / 12 (a quarter turn is
\* Quarter of them), for p_ang and q_ang multiples of the quarter turn
ArcLength(a) ==
    Mul(a.radius, I(IF a.ccw THEN (a.q_ang - a.p_ang) % TAU ELSE (a.p_ang - a.q_ang) % TAU))

\* f64::round of a finite x >= 0 (halves go up), as usize
RoundF(x) == ((2 * x[1]) + x[2]) \div (2 * x[2])

\* Edge::into_segments(len)
IntoSegments(e, len) ==
    IF e.kind = "Segment" THEN <<e>>
    ELSE LET Windows(sampled) ==
                 [k \in 1..(Len(sampled) - 1) |-> Segment(sampled[k], sampled[k + 1])]
             Split(intervals) == Windows(SamplePoints(e, intervals + 1))
         IN  Split(RoundF(MaxF(Div(ArcLength(e), len), I(1))))

\* self.into_segments(other): other is the target length
CallIntoSegments ==
    /\ out = OutUnset
    /\ out' = Returned(IntoSegments(self, other))
    /\ UNCHANGED <<self, other, cnt, ints, rints, inb, given, edges, points, status,
                   pt, ops, hits, held>>

MaxTarget == 4

\* the target lengths, in units of pi / 12: multiples of a fifth of a turn
\* of radius 1 up to more than the longest arc
TargetLens == {Q(TAU * k, 5) : k \in 1..(2 * MaxTarget)}

QuarterAngs == {Quarter * k : k \in 0..3}

SplitEdges ==
    {Arc(c, I(2), p, q, w) : c \in {PtI(0, 0), PtI(1, 2)},
                             p \in QuarterAngs, q \in QuarterAngs, w \in BOOLEAN}
    \cup {Segment(PtI(0, 0), PtI(3, 4)), Segment(PtI(1, 1), PtI(1, 1))}

InitSegments ==
    /\ self \in {e \in SplitEdges : e.kind = "Segment" \/ e.p_ang # e.q_ang}
    /\ other \in TargetLens
    /\ cnt = CUnset
    /\ ints = IUnset
    /\ rints = IUnset
    /\ inb = "unset"
    /\ NoBoundary
    /\ pt = PtI(0, 0)
    /\ NoCalls

NextSegments == CallIntoSegments

SpecSegments == InitSegments /\ [][NextSegments]_vars

\* the starts of the returned segments and the end of the last one
Vertices(segs) == [k \in 1..(Len(segs) + 1) |-> IF k = 1 THEN segs[1].p ELSE segs[k - 1].q]

\* C24: into_segments(len) of a Segment edge returns that one segment; of
\* an Arc edge of length L it returns max(1, round(L / len)) Segments, each
\* starting where the one before ends, the first at the arc's p_ang point,
\* the last ending at its q_ang point, and every vertex on the circle and
\* in the arc's wedge (bounds_contain), for both ccw values and for arcs
\* wrapping through angle 0. (Vertices with irrational coordinates are not
\* examined.)
C24_IntoSegments ==
    out # OutUnset =>
        IF self.kind = "Segment" THEN out.val = <<self>>
        ELSE /\ Len(out.val) = IF Lt(Div(ArcLength(self), other), I(1)) THEN 1
                               ELSE RoundF(Div(ArcLength(self), other))
             /\ \A k \in 1..Len(out.val) : out.val[k].kind = "Segment"
             /\ \A k \in 1..(Len(out.val) - 1) : out.val[k].q = out.val[k + 1].p
             /\ out.val[1].p = CircleAtAng(ArcToCircle(self), self.p_ang)
             /\ out.val[Len(out.val)].q = CircleAtAng(ArcToCircle(self), self.q_ang)
             /\ \A k \in 1..(Len(out.val) + 1) :
                    ~PHasIrr(Vertices(out.val)[k]) =>
                        /\ OnCircle(ArcToCircle(self), Vertices(out.val)[k])
                        /\ ArcBoundsContain(self, Vertices(out.val)[k])

(***************************************************************************)
(* SpecCount: the Count of a large Intersections (intersect.rs)            *)
(***************************************************************************)
\* Intersections::combine
Combine(s, o) ==
    IF s = IZero THEN o
    ELSE IF o = IZero THEN s
    ELSE CASE s.tag = "One" ->
                  IF o.tag = "One" THEN ITwo(s.pts[1], o.pts[1])
                  ELSE IF o.tag = "Two" THEN IMany(s.pts \o o.pts)
                  ELSE IMany(Append(o.pts, s.pts[1]))
           [] s.tag = "Two" ->
                  IF o.tag = "Many" THEN IMany(o.pts \o s.pts)
                  ELSE IMany(s.pts \o o.pts)
           [] OTHER -> IMany(s.pts \o o.pts)

MaxPoints == 258

\* the point every result of SpecCount holds copies of
CountPoint == PtI(0, 0)

\* the inputs of from_vec: up to three copies of the point
CountVecs == {[i \in 1..n |-> CountPoint] : n \in 0..3}

InitCount ==
    /\ self = Segment(PtI(0, 0), PtI(1, 0))
    /\ other = PtI(0, 0)
    /\ cnt = CUnset
    /\ \E v \in CountVecs : ints = FromVec(v)
    /\ rints = IUnset
    /\ inb = "unset"
    /\ NoBoundary
    /\ pt = PtI(0, 0)
    /\ NoCalls

\* ints = a.combine(b), a and b being ints and a small result or ints twice;
\* a count taken before was that of the value consumed
CallCombine ==
    /\ \E o \in {IOne(CountPoint), ITwo(CountPoint, CountPoint), ints}, first \in BOOLEAN :
        /\ Len(ints.pts) + Len(o.pts) <= MaxPoints
        /\ ints' = IF first THEN Combine(ints, o) ELSE Combine(o, ints)
    /\ cnt' = CUnset
    /\ UNCHANGED <<self, other, rints, inb, given, edges, points, status, calls>>

\* ints = ints.filter(|p| s.bounds_contain(*p)), s a Segment that holds the
\* point or one that does not
CallFilter ==
    /\ \E s \in {Segment(PtI(0, 0), PtI(1, 0)), Segment(PtI(1, 0), PtI(2, 0))} :
        ints' = Filter(ints, s)
    /\ cnt' = CUnset
    /\ UNCHANGED <<self, other, rints, inb, given, edges, points, status, calls>>

\* cnt = ints.count()
CallCount ==
    /\ cnt = CUnset
    /\ cnt' = ICount(ints)
    /\ UNCHANGED <<self, other, ints, rints, inb, given, edges, points, status, calls>>

NextCount == CallCombine \/ CallFilter \/ CallCount

SpecCount == InitCount /\ [][NextCount]_vars

\* C26: for a result holding n points, count() is Zero for n = 0, One for
\* n = 1 and Many(n) for every n >= 2, also for n > 255; count().is_zero()
\* is true only for n = 0, and Many(0) or Many(1) is never the count of a
\* result of from_vec, filter or combine.
C26_CountExact ==
    cnt # CUnset =>
        /\ cnt = IF Len(ints.pts) = 0 THEN CZero
                 ELSE IF Len(ints.pts) = 1 THEN COne
                 ELSE CMany(Len(ints.pts))
        /\ IsZero(cnt) <=> Len(ints.pts) = 0
        /\ cnt.tag = "Many" => cnt.n >= 2

=============================================================================
